---- MODULE Spec2Model ----
(***************************************************************************)
(* Model of the analytics dashboard's server side: the event store         *)
(* (lib/db.ts), the five aggregation endpoints (/api/events, /api/funnel,  *)
(* /api/ab-test, /api/trends, /api/overview), the admin regeneration       *)
(* endpoint, and the client's lift computation.                            *)
(*                                                                         *)
(* Conventions.                                                            *)
(*  - A JavaScript string that the code compares, splits or parses is a    *)
(*    sequence of UTF-16 code units (48..57 are '0'..'9', 45 '-', 84 'T',  *)
(*    58 ':', 46 '.', 90 'Z', 124 '|').  Opaque identifiers (session ids,  *)
(*    event names, ...) are TLA+ strings, only ever compared for equality. *)
(*  - A JavaScript number is a record: [t |-> "num", n, d] is the rational *)
(*    n/d in lowest terms with d > 0, [t |-> "nan"], [t |-> "inf", s]      *)
(*    (s = 1 or -1).  Rounding of IEEE doubles is not modelled.            *)
(*  - Every handler runs to completion on Node's single thread (none of    *)
(*    them awaits), so handling a request is one action; it is enabled     *)
(*    while the request is unanswered.                                     *)
(***************************************************************************)
EXTENDS Integers, Sequences, FiniteSets, TLC

VARIABLES
    file,          \* data/events.json: [ok |-> readable and parsable, events |-> its log]
    cachedEvents,  \* lib/db.ts module variable: Null or Some(the cached array)
    tz,            \* the server process's local UTC offset, in hours
    schedulerToken,\* process.env.SCHEDULER_TOKEN: "" when not configured
    loaded,        \* the array the handler obtained from loadEvents()
    events,        \* the handler's variable `events` when it answers: the loaded
                   \* array, or what the handler's filters have left of it
    req,           \* the request at the server: endpoint and query parameters
    resp,          \* its response: status 0 until the handler has answered
    abTestPage,    \* the A/B page in the browser: its experiments and their lifts
    lastRegen      \* history: the loadEvents calls made since the last successful
                   \* regeneration (2: two or more, or none yet), the cache
                   \* that regeneration invalidated, and whether the last
                   \* loadEvents call found the cache set

vars == <<file, cachedEvents, tz, schedulerToken, loaded, events, req, resp, abTestPage,
          lastRegen>>

\* a nullable reference: <<>> is null, <<x>> refers to x
Null == <<>>
Some(x) == <<x>>

(***************************************************************************)
(* Bounds of the model.                                                    *)
(***************************************************************************)
MaxFunnelEvents == 3
MaxABEvents == 2
MaxOverviewEvents == 3
MaxListEvents == 3
MaxAggregatorEvents == 2
MaxGenerated == 2
MaxTrendEvents == 3
MaxExperiments == 2
MaxSessions == 2

(***************************************************************************)
(* JavaScript numbers.                                                     *)
(***************************************************************************)
RECURSIVE GCD(_, _)
GCD(a, b) == IF b = 0 THEN a ELSE GCD(b, a % b)

Abs(x) == IF x < 0 THEN -x ELSE x

NaN == [t |-> "nan"]
Inf(s) == [t |-> "inf", s |-> s]

\* the rational n/d (d # 0) in lowest terms, denominator positive
Rat(n, d) ==
    LET g == GCD(Abs(n), Abs(d))
        sgn == IF d < 0 THEN -1 ELSE 1
    IN  [t |-> "num", n |-> sgn * (n \div g), d |-> sgn * (d \div g)]

Num(n) == [t |-> "num", n |-> n, d |-> 1]

IsFinite(x) == x.t = "num"

\* x / y of a finite x and a y that is finite or NaN, as IEEE division:
\* 0/0 is NaN, x/0 is +-Infinity
JSDiv(x, y) ==
    IF y.t = "nan" THEN NaN
    ELSE IF y.n = 0
    THEN IF x.n = 0 THEN NaN ELSE Inf(IF x.n > 0 THEN 1 ELSE -1)
    ELSE Rat(x.n * y.d, x.d * y.n)

\* x * k for an integer k > 0
JSMulInt(x, k) ==
    IF x.t = "num" THEN Rat(x.n * k, x.d) ELSE x

JSSub(x, y) ==
    IF x.t = "nan" \/ y.t = "nan" THEN NaN ELSE Rat(x.n * y.d - y.n * x.d, x.d * y.d)

\* Math.ceil; NaN and the infinities are returned as they are
Ceil(x) == IF x.t = "num" THEN Num(-((-x.n) \div x.d)) ELSE x

\* x * y and x + y of numbers that are finite or NaN
JSMul(x, y) ==
    IF x.t = "nan" \/ y.t = "nan" THEN NaN ELSE Rat(x.n * y.n, x.d * y.d)

JSAdd(x, y) ==
    IF x.t = "nan" \/ y.t = "nan" THEN NaN ELSE Rat(x.n * y.d + y.n * x.d, x.d * y.d)

\* Math.min(x, k) for an integer k: NaN when x is NaN
MathMin(x, k) ==
    IF x.t = "nan" THEN NaN ELSE IF x.n <= k * x.d THEN x ELSE Num(k)

(***************************************************************************)
(* JavaScript strings, as sequences of code units.                         *)
(***************************************************************************)
\* a < b by code units, the order of the relational operators and of the
\* default Array.prototype.sort; a proper prefix comes first.
\* localeCompare orders the strings compared here (ISO timestamps, ISO dates
\* and "date|hour" keys: digits at equal positions, or one a prefix of the
\* other) the same way.
RECURSIVE StrLess(_, _)
StrLess(a, b) ==
    IF b = <<>> THEN FALSE
    ELSE IF a = <<>> THEN TRUE
    ELSE IF Head(a) # Head(b) THEN Head(a) < Head(b)
    ELSE StrLess(Tail(a), Tail(b))

StrLeq(a, b) == a = b \/ StrLess(a, b)

\* s.split(sep)[0]: the code units before the first sep
RECURSIVE SplitFirst(_, _)
SplitFirst(s, sep) ==
    IF s = <<>> \/ Head(s) = sep THEN <<>>
    ELSE <<Head(s)>> \o SplitFirst(Tail(s), sep)

\* s.split(sep)[1] when s holds one sep: the code units after it
RECURSIVE SplitSecond(_, _)
SplitSecond(s, sep) ==
    IF s = <<>> THEN <<>>
    ELSE IF Head(s) = sep THEN Tail(s)
    ELSE SplitSecond(Tail(s), sep)

IsDigit(c) == c >= 48 /\ c <= 57

\* the value of the longest prefix of decimal digits of s, from acc
RECURSIVE DigitsValue(_, _)
DigitsValue(s, acc) ==
    IF s = <<>> \/ ~IsDigit(Head(s)) THEN acc
    ELSE DigitsValue(Tail(s), 10 * acc + (Head(s) - 48))

RECURSIVE SkipSpaces(_)
SkipSpaces(s) == IF s # <<>> /\ Head(s) = 32 THEN SkipSpaces(Tail(s)) ELSE s

\* parseInt(s, 10): leading whitespace, an optional sign, then digits up to
\* the first other code unit; NaN when there is no digit
parseInt(s) ==
    LET t == SkipSpaces(s)
        neg == t # <<>> /\ Head(t) = 45
        u == IF t # <<>> /\ (Head(t) = 45 \/ Head(t) = 43) THEN Tail(t) ELSE t
    IN  IF u = <<>> \/ ~IsDigit(Head(u)) THEN NaN
        ELSE Num((IF neg THEN -1 ELSE 1) * DigitsValue(u, 0))

\* Number.prototype.toString() of an integer in 0..99
NumToString(n) == IF n < 10 THEN <<48 + n>> ELSE <<48 + (n \div 10), 48 + (n % 10)>>

\* n.toString().padStart(2, '0') of an integer in 0..99
PadStart2(n) == IF n < 10 THEN <<48, 48 + n>> ELSE NumToString(n)

(***************************************************************************)
(* Arrays.                                                                 *)
(***************************************************************************)
\* Array.prototype.filter is SelectSeq of the Sequences module.

\* new Set(arr.map(e => e.session_id)).size
SessionSet(s) == {s[i].session_id : i \in DOMAIN s}

(***************************************************************************)
(* lib/types.ts: Event.  value is optional: <<>> when absent, <<v>> when   *)
(* present.  timestamp is an ISO string (a sequence of code units).        *)
(***************************************************************************)
\* "2024-01-DDTHH:00:00.000Z", what Date.prototype.toISOString produces
Pad2(n) == <<48 + (n \div 10), 48 + (n % 10)>>

ISODate(day) == <<50, 48, 50, 52, 45, 48, 49, 45>> \o Pad2(day)

ISOTimestamp(day, hour) ==
    ISODate(day) \o <<84>> \o Pad2(hour) \o <<58, 48, 48, 58, 48, 48, 46, 48, 48, 48, 90>>

\* the types Device and Channel
KnownDevices == {"mobile", "desktop", "tablet"}
KnownChannels == {"organic", "paid_search", "social", "email", "direct"}

Event(sid, name, variant, device, channel, expId, expName, ts, value) ==
    [session_id |-> sid, user_id |-> "u1", event_name |-> name, variant |-> variant,
     device |-> device, channel |-> channel, experiment_id |-> expId,
     experiment_name |-> expName, timestamp |-> ts, value |-> value]

\* e.value || 0
ValueOrZero(e) == IF e.value = <<>> THEN 0 ELSE e.value[1]

SeqsUpTo(S, n) == UNION {[1..k -> S] : k \in 0..n}

\* the hour digits of an ISO timestamp, as a number (UTC)
UTCHour(ts) == DigitsValue(SubSeq(ts, 12, 13), 0)

\* new Date(ts).getHours(): the hour of the day in the server's local zone
getHours(ts, zone) == (UTCHour(ts) + zone + 24) % 24

\* ts.split('T')[0]
DatePrefix(ts) == SplitFirst(ts, 84)

\* the route of the request, which the framework dispatches on
Pending(endpoint) == req.endpoint = endpoint /\ resp.status = 0

(***************************************************************************)
(* lib/db.ts                                                               *)
(***************************************************************************)
\* loadEvents() caching the empty fallback of a failed read
loadEvents_cachesFallback_mut(cache, f) ==
    IF cache # Null
    THEN [ret |-> cache[1], cache |-> cache]
    ELSE IF f.ok
         THEN [ret |-> f.events, cache |-> Some(f.events)]
         ELSE [ret |-> <<>>, cache |-> Some(<<>>)]

\* loadEvents() without the cache test: the file is read on every call
loadEvents_mut(cache, f) ==
    IF f.ok
    THEN [ret |-> f.events, cache |-> Some(f.events)]
    ELSE [ret |-> <<>>, cache |-> cache]

\* loadEvents(): the returned array and the module variable afterwards.
\* An array, even an empty one, is truthy.
loadEvents(cache, f) ==
    IF cache # Null
    THEN [ret |-> cache[1], cache |-> cache]
    ELSE IF f.ok
         THEN [ret |-> f.events, cache |-> Some(f.events)]
         ELSE [ret |-> <<>>, cache |-> Null]

\* the listing ordering the array loadEvents returned, in place, newest first
\* (the collection is written in chronological order)
arrayAfterHandler_mut(endpoint, arr) ==
    IF endpoint = "events" THEN [i \in 1..Len(arr) |-> arr[Len(arr) + 1 - i]] ELSE arr

\* The array loadEvents returned is the cached array itself, not a copy.
\* What it holds when the handler of the endpoint returns: the handlers
\* filter, map and spread it into new arrays ([...events].sort(...),
\* events.map(...).sort()) and never write to it.
arrayAfterHandler(endpoint, arr) == arr

\* the effect on the server of a handler's call of loadEvents() returning l
Load(l) ==
    /\ cachedEvents' = IF l.cache = Null THEN Null
                       ELSE Some(arrayAfterHandler(req.endpoint, l.cache[1]))
    /\ loaded' = l.ret
    /\ lastRegen' = [lastRegen EXCEPT !.loads = IF @ < 2 THEN @ + 1 ELSE 2,
                                       !.hit = cachedEvents # Null]

(***************************************************************************)
(* GET /api/events                                                         *)
(* An absent query parameter is the empty string: searchParams.get returns *)
(* null, and `|| default` and `if (sessionIdFilter)` treat null and ''     *)
(* alike.                                                                  *)
(***************************************************************************)
\* parseInt(searchParams.get('page') || '1', 10)
parsePage(raw) == parseInt(IF raw = <<>> THEN <<49>> ELSE raw)

\* Math.min(parseInt(searchParams.get('limit') || '50', 10), 200)
parseLimit(raw) == MathMin(parseInt(IF raw = <<>> THEN <<53, 48>> ELSE raw), 200)

\* if (sessionIdFilter) events = events.filter(e => e.session_id === sessionIdFilter)
keepSession(evs, sessionIdFilter) ==
    LET InSession(e) == e.session_id = sessionIdFilter
    IN  IF sessionIdFilter # "" THEN SelectSeq(evs, InSession) ELSE evs

RECURSIVE insertNewestFirst(_, _)
insertNewestFirst(s, e) ==
    IF s = <<>> THEN <<e>>
    ELSE IF StrLess(Head(s).timestamp, e.timestamp) THEN <<e>> \o s
    ELSE <<Head(s)>> \o insertNewestFirst(Tail(s), e)

\* [...events].sort((a, b) => b.timestamp.localeCompare(a.timestamp)), stable
RECURSIVE sortNewestFirst(_)
sortNewestFirst(s) ==
    IF s = <<>> THEN <<>>
    ELSE insertNewestFirst(sortNewestFirst(SubSeq(s, 1, Len(s) - 1)), s[Len(s)])

\* the index Array.prototype.slice makes of an argument: NaN is 0, a fraction
\* is truncated, a negative one counts from the end, all clamped to 0..len
sliceIndex(x, len) ==
    LET k == IF x.t = "nan" THEN 0
             ELSE IF x.n >= 0 THEN x.n \div x.d ELSE -((-x.n) \div x.d)
    IN  IF k < 0 THEN (IF len + k < 0 THEN 0 ELSE len + k)
        ELSE IF k > len THEN len ELSE k

\* a slice that includes the element at its end index
slice_mut(arr, start, end) ==
    LET last == sliceIndex(end, Len(arr)) + 1
    IN  SubSeq(arr, sliceIndex(start, Len(arr)) + 1, IF last > Len(arr) THEN Len(arr) ELSE last)

\* arr.slice(start, end), the arguments being JavaScript numbers
slice(arr, start, end) ==
    SubSeq(arr, sliceIndex(start, Len(arr)) + 1, sliceIndex(end, Len(arr)))

\* floor(total / limit) + 1 in place of the ceiling
totalPages_mut(total, limit) == Ceil(JSDiv(Num(total + 1), limit))

\* Math.ceil(events.length / limit)
totalPages(total, limit) == Ceil(JSDiv(Num(total), limit))

listEvents(all, q) ==
    LET page == parsePage(q.page)
        limit == parseLimit(q.limit)
        evs == keepSession(all, q.session_id)
        sortedEvents == sortNewestFirst(evs)
        startIndex == JSMul(JSSub(page, Num(1)), limit)
        endIndex == JSAdd(startIndex, limit)
    IN  [data |-> slice(sortedEvents, startIndex, endIndex),
         pagination |-> [page |-> page,
                         limit |-> limit,
                         total |-> Len(evs),
                         totalPages |-> totalPages(Len(evs), limit)]]

\* the values the model gives the query parameters: absent, "0", "-1", "2",
\* "3", "abc" for page; absent, "0", "-1", "1", "2", "250", "abc" for limit
PageParams == {<<>>, <<48>>, <<45, 49>>, <<50>>, <<51>>, <<97, 98, 99>>}
LimitParams == {<<>>, <<48>>, <<45, 49>>, <<49>>, <<50>>, <<50, 53, 48>>, <<97, 98, 99>>}
SessionParams == {"", "s1", "s9"}

EventsRequests ==
    {[endpoint |-> "events", query |-> [page |-> pg, limit |-> lim, session_id |-> sid]] :
        pg \in PageParams, lim \in LimitParams, sid \in SessionParams}

GET_events ==
    LET l == loadEvents(cachedEvents, file)
    IN  /\ Pending("events")
        /\ Load(l)
        /\ events' = keepSession(l.ret, req.query.session_id)
        /\ resp' = [status |-> 200, body |-> listEvents(l.ret, req.query)]
        /\ UNCHANGED <<file, tz, schedulerToken, req, abTestPage>>

(***************************************************************************)
(* GET /api/funnel                                                         *)
(***************************************************************************)
FUNNEL_STEPS == <<"page_view", "add_to_cart", "begin_checkout", "purchase">>

\* stepSessions[step]: the set of session ids with an event of that name
stepSessions(evs, step) ==
    LET IsStep(e) == e.event_name = step
    IN  SessionSet(SelectSeq(evs, IsStep))

\* the UTF-16 code units of the step literals of FUNNEL_STEPS
StepChars(step) ==
    CASE step = "page_view" -> <<112, 97, 103, 101, 95, 118, 105, 101, 119>>
      [] step = "add_to_cart" -> <<97, 100, 100, 95, 116, 111, 95, 99, 97, 114, 116>>
      [] step = "begin_checkout" ->
            <<98, 101, 103, 105, 110, 95, 99, 104, 101, 99, 107, 111, 117, 116>>
      [] step = "purchase" -> <<112, 117, 114, 99, 104, 97, 115, 101>>

\* String.prototype.replace with a string pattern of one code unit: the first
\* occurrence is replaced, later ones are kept
replace(s, pat, rep) ==
    IF \E i \in DOMAIN s : s[i] = pat
    THEN LET first == CHOOSE i \in DOMAIN s :
                          s[i] = pat /\ \A j \in 1..(i - 1) : s[j] # pat
         IN  [i \in DOMAIN s |-> IF i = first THEN rep ELSE s[i]]
    ELSE s

\* step.replace('_', ' ')
StepName(step) == replace(StepChars(step), 95, 32)

\* a zero previous count reported as 0
pctFromPrevious_mut(currentCount, previousCount) ==
    IF previousCount > 0 THEN Rat(100 * currentCount, previousCount) ELSE Num(0)

\* previousCount > 0 ? (currentCount / previousCount) * 100 : 100
pctFromPrevious(currentCount, previousCount) ==
    IF previousCount > 0 THEN Rat(100 * currentCount, previousCount) ELSE Num(100)

\* the percentage without its factor of 100
pctFromStart_mut(currentCount, firstStepCount) ==
    IF firstStepCount > 0 THEN Rat(currentCount, firstStepCount) ELSE Num(0)

\* firstStepCount > 0 ? (currentCount / firstStepCount) * 100 : 0
pctFromStart(currentCount, firstStepCount) ==
    IF firstStepCount > 0 THEN Rat(100 * currentCount, firstStepCount) ELSE Num(0)

\* the forEach over FUNNEL_STEPS; previousCount starts at 0
computeFunnel(evs) ==
    LET count(i) == Cardinality(stepSessions(evs, FUNNEL_STEPS[i]))
        firstStepCount == count(1)
        previousCount(i) == IF i = 1 THEN 0 ELSE count(i - 1)
    IN  [i \in 1..Len(FUNNEL_STEPS) |->
            [step_name |-> StepName(FUNNEL_STEPS[i]),
             sessions |-> count(i),
             pct_from_previous |-> pctFromPrevious(count(i), previousCount(i)),
             pct_from_start |-> pctFromStart(count(i), firstStepCount)]]

GET_funnel ==
    LET l == loadEvents(cachedEvents, file)
    IN  /\ Pending("funnel")
        /\ Load(l)
        /\ events' = l.ret
        /\ resp' = [status |-> 200, body |-> computeFunnel(l.ret)]
        /\ UNCHANGED <<file, tz, schedulerToken, req, abTestPage>>

(***************************************************************************)
(* GET /api/ab-test                                                        *)
(***************************************************************************)
\* truthiness of e.value: absent and 0 are falsy
Truthy(e) == e.value # <<>> /\ e.value[1] # 0

\* the keys of experimentMap, in insertion (first-seen) order
RECURSIVE experimentIds(_)
experimentIds(evs) ==
    IF evs = <<>> THEN <<>>
    ELSE LET first == Head(evs).experiment_id
             Other(e) == e.experiment_id # first
         IN  <<first>> \o experimentIds(SelectSeq(Tail(evs), Other))

\* the name stored when the experiment's entry is created
experimentName(evs, experimentId) ==
    LET InExp(e) == e.experiment_id = experimentId
    IN  Head(SelectSeq(evs, InExp)).experiment_name

\* reduce((sum, e) => sum + (e.value || 0), 0)
RECURSIVE sumValues(_)
sumValues(evs) ==
    IF evs = <<>> THEN 0 ELSE ValueOrZero(Head(evs)) + sumValues(Tail(evs))

\* a rate computed without the zero-sessions guard
conversionRate_mut(conversions, sessions) ==
    JSMulInt(JSDiv(Num(conversions), Num(sessions)), 100)

\* a rate capped at 100
conversionRate_capped_mut(conversions, sessions) ==
    IF sessions > 0
    THEN (IF conversions > sessions THEN Num(100)
          ELSE JSMulInt(JSDiv(Num(conversions), Num(sessions)), 100))
    ELSE Num(0)

\* sessions > 0 ? (conversions / sessions) * 100 : 0
conversionRate(conversions, sessions) ==
    IF sessions > 0 THEN JSMulInt(JSDiv(Num(conversions), Num(sessions)), 100)
    ELSE Num(0)

\* sessions > 0 ? revenue / sessions : 0
revenuePerSession(revenue, sessions) ==
    IF sessions > 0 THEN JSDiv(Num(revenue), Num(sessions)) ELSE Num(0)

\* revenue summed over every event of the variant, purchase or not
variantRevenue_mut(variantData) ==
    sumValues(SelectSeq(variantData, Truthy))

\* filter(e => e.event_name === 'purchase' && e.value).reduce(...)
variantRevenue(variantData) ==
    LET PaidPurchase(e) == e.event_name = "purchase" /\ Truthy(e)
    IN  sumValues(SelectSeq(variantData, PaidPurchase))

\* the body of (['A', 'B']).forEach
variantResult(variantData, variant) ==
    LET sessions == Cardinality(SessionSet(variantData))
        IsPurchase(e) == e.event_name = "purchase"
        conversions == Len(SelectSeq(variantData, IsPurchase))
        revenue == variantRevenue(variantData)
    IN  [variant |-> variant,
         sessions |-> sessions,
         conversions |-> conversions,
         conversion_rate |-> conversionRate(conversions, sessions),
         revenue |-> revenue,
         revenue_per_session |-> revenuePerSession(revenue, sessions)]

\* an aggregator that leaves out an arm without events
computeABResults_mut(evs) ==
    LET ids == experimentIds(evs)
        one(id) ==
            LET InExp(e) == e.experiment_id = id
                expEvents == SelectSeq(evs, InExp)
                IsA(e) == e.variant = "A"
                IsB(e) == e.variant = "B"
                arm(data, v) == IF data = <<>> THEN <<>> ELSE <<variantResult(data, v)>>
            IN  [experiment_id |-> id,
                 experiment_name |-> experimentName(evs, id),
                 results |-> arm(SelectSeq(expEvents, IsA), "A")
                             \o arm(SelectSeq(expEvents, IsB), "B")]
    IN  [k \in 1..Len(ids) |-> one(ids[k])]

\* experimentMap, then Array.from(experimentMap.entries()).map(...)
computeABResults(evs) ==
    LET ids == experimentIds(evs)
        one(id) ==
            LET InExp(e) == e.experiment_id = id
                expEvents == SelectSeq(evs, InExp)
                IsA(e) == e.variant = "A"
                IsB(e) == e.variant = "B"
            IN  [experiment_id |-> id,
                 experiment_name |-> experimentName(evs, id),
                 results |-> <<variantResult(SelectSeq(expEvents, IsA), "A"),
                               variantResult(SelectSeq(expEvents, IsB), "B")>>]
    IN  [k \in 1..Len(ids) |-> one(ids[k])]

GET_ab_test ==
    LET l == loadEvents(cachedEvents, file)
    IN  /\ Pending("ab-test")
        /\ Load(l)
        /\ events' = l.ret
        /\ resp' = [status |-> 200, body |-> computeABResults(l.ret)]
        /\ UNCHANGED <<file, tz, schedulerToken, req, abTestPage>>

(***************************************************************************)
(* The A/B page (client).                                                  *)
(***************************************************************************)
\* ((variantB.conversion_rate - variantA.conversion_rate) /
\*   variantA.conversion_rate) * 100, 0 for fewer than two results
calculateLift(results) ==
    IF Len(results) < 2 THEN Num(0)
    ELSE LET variantA == results[1]
             variantB == results[2]
         IN  JSMulInt(JSDiv(JSSub(variantB.conversion_rate, variantA.conversion_rate),
                            variantA.conversion_rate), 100)

\* fetchABTestResults: with an ok response, setExperiments(data); the render
\* computes calculateLift(experiment.results) for each experiment
ABTestPage_fetch ==
    /\ req.endpoint = "ab-test" /\ resp.status = 200
    /\ abTestPage' = [experiments |-> resp.body,
                      lifts |-> [k \in DOMAIN resp.body |->
                                    calculateLift(resp.body[k].results)]]
    /\ UNCHANGED <<file, cachedEvents, tz, schedulerToken, loaded, events, req, resp,
                   lastRegen>>

(***************************************************************************)
(* GET /api/trends                                                         *)
(***************************************************************************)
\* a bucket per event: the trendsByDate.has(date) test forgotten
trendDates_mut(evs) == [k \in DOMAIN evs |-> DatePrefix(evs[k].timestamp)]

\* the keys of trendsByDate, in insertion (first-seen) order
RECURSIVE trendDates(_)
trendDates(evs) ==
    IF evs = <<>> THEN <<>>
    ELSE LET first == DatePrefix(Head(evs).timestamp)
             Other(e) == DatePrefix(e.timestamp) # first
         IN  <<first>> \o trendDates(SelectSeq(Tail(evs), Other))

\* (data.conversions / data.sessions.size) * 100, not guarded
trendRate(conversions, sessions) ==
    JSMulInt(JSDiv(Num(conversions), Num(sessions)), 100)

\* revenue accumulated on every event of the day that carries a value
trendRevenue_mut(dayEvents) == sumValues(SelectSeq(dayEvents, Truthy))

\* if (event.event_name === 'purchase') { ...; if (event.value) revenue += event.value }
trendRevenue(dayEvents) ==
    LET IsPurchase(e) == e.event_name = "purchase"
    IN  sumValues(SelectSeq(SelectSeq(dayEvents, IsPurchase), Truthy))

\* the TrendData of one date
trendPoint(evs, date) ==
    LET OnDate(e) == DatePrefix(e.timestamp) = date
        dayEvents == SelectSeq(evs, OnDate)
        IsPurchase(e) == e.event_name = "purchase"
        purchases == SelectSeq(dayEvents, IsPurchase)
        sessions == Cardinality(SessionSet(dayEvents))
    IN  [date |-> date,
         sessions |-> sessions,
         conversions |-> Len(purchases),
         revenue |-> trendRevenue(dayEvents),
         conversion_rate |-> trendRate(Len(purchases), sessions)]

\* insert p into the sorted list s, after the entries not greater than it
RECURSIVE insertTrend(_, _)
insertTrend(s, p) ==
    IF s = <<>> THEN <<p>>
    ELSE IF StrLess(p.date, Head(s).date) THEN <<p>> \o s
    ELSE <<Head(s)>> \o insertTrend(Tail(s), p)

\* .sort((a, b) => a.date.localeCompare(b.date)), a stable sort
RECURSIVE sortTrends(_)
sortTrends(s) ==
    IF s = <<>> THEN <<>>
    ELSE insertTrend(sortTrends(SubSeq(s, 1, Len(s) - 1)), s[Len(s)])

computeTrends(evs) ==
    LET dates == trendDates(evs)
    IN  sortTrends([k \in 1..Len(dates) |-> trendPoint(evs, dates[k])])

\* a handler that computes from a read of the data file of its own, beside
\* the snapshot loadEvents returned
GET_trends_mut ==
    LET l == loadEvents(cachedEvents, file)
    IN  /\ Pending("trends")
        /\ Load(l)
        /\ events' = l.ret
        /\ resp' = [status |-> 200,
                    body |-> computeTrends(IF file.ok THEN file.events ELSE <<>>)]
        /\ UNCHANGED <<file, tz, schedulerToken, req, abTestPage>>

GET_trends ==
    LET l == loadEvents(cachedEvents, file)
    IN  /\ Pending("trends")
        /\ Load(l)
        /\ events' = l.ret
        /\ resp' = [status |-> 200, body |-> computeTrends(l.ret)]
        /\ UNCHANGED <<file, tz, schedulerToken, req, abTestPage>>

(***************************************************************************)
(* GET /api/overview                                                       *)
(* A query parameter that is absent is the empty string: searchParams.get  *)
(* returns null, and the handler tests each parameter for truthiness, which*)
(* null and '' both fail.                                                  *)
(***************************************************************************)
\* if (startDate) events = events.filter(e => e.timestamp >= startDate)
keepFrom(evs, startDate) ==
    LET From(e) == StrLeq(startDate, e.timestamp)
    IN  IF startDate # <<>> THEN SelectSeq(evs, From) ELSE evs

\* if (endDate) events = events.filter(e => e.timestamp <= endDate)
keepUntil(evs, endDate) ==
    LET Until(e) == StrLeq(e.timestamp, endDate)
    IN  IF endDate # <<>> THEN SelectSeq(evs, Until) ELSE evs

\* if (deviceFilter) events = events.filter(e => e.device === deviceFilter)
keepDevice(evs, deviceFilter) ==
    LET OnDevice(e) == e.device = deviceFilter
    IN  IF deviceFilter # "" THEN SelectSeq(evs, OnDevice) ELSE evs

\* if (channelFilter) events = events.filter(e => e.channel === channelFilter)
keepChannel(evs, channelFilter) ==
    LET OnChannel(e) == e.channel = channelFilter
    IN  IF channelFilter # "" THEN SelectSeq(evs, OnChannel) ELSE evs

filterOverview(evs, q) ==
    keepChannel(keepDevice(keepUntil(keepFrom(evs, q.startDate), q.endDate),
                           q.device), q.channel)

\* the least timestamp of a non-empty array: timestamps.sort()[0]
minTimestamp(evs) ==
    LET T == {evs[i].timestamp : i \in DOMAIN evs}
    IN  CHOOSE t \in T : \A u \in T : StrLeq(t, u)

\* the greatest: timestamps.sort()[timestamps.length - 1]
maxTimestamp(evs) ==
    LET T == {evs[i].timestamp : i \in DOMAIN evs}
    IN  CHOOSE t \in T : \A u \in T : StrLeq(u, t)

\* the range taken from the first and the last event, the sort forgotten
dateRange_mut(evs) ==
    IF evs = <<>> THEN [start |-> Null, end |-> Null]
    ELSE [start |-> DatePrefix(evs[1].timestamp),
          end |-> DatePrefix(evs[Len(evs)].timestamp)]

\* timestamps[0]?.split('T')[0] || null, and the same of the last one;
\* null is the empty sequence
dateRange(evs) ==
    IF evs = <<>> THEN [start |-> Null, end |-> Null]
    ELSE [start |-> DatePrefix(minTimestamp(evs)),
          end |-> DatePrefix(maxTimestamp(evs))]

\* the channels histogram of a bucket: a count per channel that occurs
channelCounts(bucket) ==
    LET HasChannel(e) == e.channel # ""
        withChannel == SelectSeq(bucket, HasChannel)
        C == {withChannel[i].channel : i \in DOMAIN withChannel}
    IN  [c \in C |-> Cardinality({i \in DOMAIN withChannel : withChannel[i].channel = c})]

\* a bucket whose channel histogram counts the purchases only
bucketMetrics_mut(bucket) ==
    LET IsPurchase(e) == e.event_name = "purchase"
        purchases == SelectSeq(bucket, IsPurchase)
    IN  [sessions |-> Cardinality(SessionSet(bucket)),
         conversions |-> Len(purchases),
         revenue |-> Rat(sumValues(purchases), 100),
         channels |-> channelCounts(purchases)]

\* what both modes accumulate for a bucket of events
bucketMetrics(bucket) ==
    LET IsPurchase(e) == e.event_name = "purchase"
        purchases == SelectSeq(bucket, IsPurchase)
    IN  [sessions |-> Cardinality(SessionSet(bucket)),
         conversions |-> Len(purchases),
         revenue |-> Rat(sumValues(purchases), 100),
         channels |-> channelCounts(bucket)]

\* single day without the initialisation of the 24 hours: only the hours
\* that hold an event
hourlySingleDay_mut(evs, zone) ==
    LET all == [k \in 1..24 |->
                   LET InHour(e) == getHours(e.timestamp, zone) = k - 1
                       m == bucketMetrics(SelectSeq(evs, InHour))
                   IN  [hour |-> PadStart2(k - 1) \o <<58, 48, 48>>,
                        hour_24 |-> k - 1,
                        sessions |-> m.sessions,
                        conversions |-> m.conversions,
                        revenue |-> m.revenue,
                        channels |-> m.channels]]
        NonEmpty(b) == b.sessions > 0
    IN  SelectSeq(all, NonEmpty)

\* single day: Object.entries(hourlyData) lists the integer keys 0..23 in
\* ascending order
hourlySingleDay(evs, zone) ==
    [k \in 1..24 |->
        LET h == k - 1
            InHour(e) == getHours(e.timestamp, zone) = h
            m == bucketMetrics(SelectSeq(evs, InHour))
        IN  [hour |-> PadStart2(h) \o <<58, 48, 48>>,
             hour_24 |-> h,
             sessions |-> m.sessions,
             conversions |-> m.conversions,
             revenue |-> m.revenue,
             channels |-> m.channels]]

\* `${date}|${hour}`: the hour is not padded
dayHourKey(e, zone) ==
    DatePrefix(e.timestamp) \o <<124>> \o NumToString(getHours(e.timestamp, zone))

\* the keys of dayHourlyData, in insertion (first-seen) order
RECURSIVE dayHourKeys(_, _)
dayHourKeys(evs, zone) ==
    IF evs = <<>> THEN <<>>
    ELSE LET first == dayHourKey(Head(evs), zone)
             Other(e) == dayHourKey(e, zone) # first
         IN  <<first>> \o dayHourKeys(SelectSeq(Tail(evs), Other), zone)

\* keyA.localeCompare(keyB) < 0
keyBefore(keyA, keyB) == StrLess(keyA, keyB)

RECURSIVE insertKey(_, _)
insertKey(s, key) ==
    IF s = <<>> THEN <<key>>
    ELSE IF keyBefore(key, Head(s)) THEN <<key>> \o s
    ELSE <<Head(s)>> \o insertKey(Tail(s), key)

\* .sort(([keyA], [keyB]) => keyA.localeCompare(keyB))
RECURSIVE sortKeys(_)
sortKeys(s) ==
    IF s = <<>> THEN <<>>
    ELSE insertKey(sortKeys(SubSeq(s, 1, Len(s) - 1)), s[Len(s)])

\* multiple days: one bucket per (date, hour) key that occurs, sorted by key
hourlyMultiDay(evs, zone) ==
    LET keys == sortKeys(dayHourKeys(evs, zone))
    IN  [k \in 1..Len(keys) |->
            LET InBucket(e) == dayHourKey(e, zone) = keys[k]
                m == bucketMetrics(SelectSeq(evs, InBucket))
                date == SplitFirst(keys[k], 124)
                hourNum == parseInt(SplitSecond(keys[k], 124)).n
            IN  [hour |-> SubSeq(date, 6, Len(date)) \o <<32>>
                          \o PadStart2(hourNum) \o <<58, 48, 48>>,
                 hour_24 |-> hourNum,
                 day |-> date,
                 sessions |-> m.sessions,
                 conversions |-> m.conversions,
                 revenue |-> m.revenue,
                 channels |-> m.channels]]

computeOverview(all, q, zone) ==
    LET evs == filterOverview(all, q)
        uniqueSessions == Cardinality(SessionSet(evs))
        IsPurchase(e) == e.event_name = "purchase"
        purchases == SelectSeq(evs, IsPurchase)
        purchaseCount == Len(purchases)
        totalRevenue == sumValues(purchases)
        range == dateRange(evs)
        isSingleDay == range.start = range.end
    IN  [sessions |-> uniqueSessions,
         purchases |-> purchaseCount,
         conversion_rate |->
             IF uniqueSessions > 0
             THEN JSMulInt(JSDiv(Num(purchaseCount), Num(uniqueSessions)), 100)
             ELSE Num(0),
         revenue |-> totalRevenue,
         aov |-> IF purchaseCount > 0
                 THEN JSDiv(Num(totalRevenue), Num(purchaseCount))
                 ELSE Num(0),
         date_range |-> range,
         hourly_metrics |-> IF isSingleDay THEN hourlySingleDay(evs, zone)
                            ELSE hourlyMultiDay(evs, zone),
         is_single_day |-> isSingleDay]

\* the values the model gives the query parameters
DateParams == {<<>>, ISODate(1), ISODate(2)}
DeviceParams == {"", "mobile", "watch"}
ChannelParams == {"", "email"}

OverviewRequests ==
    {[endpoint |-> "overview",
      query |-> [startDate |-> sd, endDate |-> ed, device |-> dev, channel |-> ch]] :
        sd \in DateParams, ed \in DateParams, dev \in DeviceParams, ch \in ChannelParams}

GET_overview ==
    LET l == loadEvents(cachedEvents, file)
    IN  /\ Pending("overview")
        /\ Load(l)
        /\ events' = filterOverview(l.ret, req.query)
        /\ resp' = [status |-> 200, body |-> computeOverview(l.ret, req.query, tz)]
        /\ UNCHANGED <<file, tz, schedulerToken, req, abTestPage>>

(***************************************************************************)
(* scripts/generateEvents.ts and POST /api/admin/regenerate-data           *)
(***************************************************************************)
\* the collections the generator writes in the model: no event, one event of
\* a session in arm A, or also events of a buying session in arm B
GeneratedEvents ==
    <<Event("s1", "page_view", "A", "mobile", "organic", "exp_001",
            "Homepage Hero Text", ISOTimestamp(1, 2), <<>>),
      Event("s2", "purchase", "B", "desktop", "email", "exp_001",
            "Homepage Hero Text", ISOTimestamp(1, 10), <<250>>),
      Event("s2", "page_view", "B", "desktop", "email", "exp_001",
            "Homepage Hero Text", ISOTimestamp(2, 2), <<>>)>>

GeneratedLogs == {SubSeq(GeneratedEvents, 1, k) : k \in 0..MaxGenerated}

\* main(): fs.writeFileSync(outputPath, JSON.stringify(events, null, 2))
writeEvents(log) == [ok |-> TRUE, events |-> log]

\* the generator run from a shell (npm run generate), beside the server
generateEvents_main ==
    /\ \E log \in GeneratedLogs : file' = writeEvents(log)
    /\ UNCHANGED <<cachedEvents, tz, schedulerToken, loaded, events, req, resp,
                   abTestPage, lastRegen>>

\* lib/db clearCache(): the cache-invalidation hook of the event store; the
\* value it leaves in cachedEvents
clearCache == Null

\* a check that rejects a wrong header but lets a request without one pass
Unauthorized_mut(authHeader, token) ==
    token # "" /\ authHeader # <<>> /\ authHeader # <<"Bearer ", token>>

\* schedulerToken && authHeader !== `Bearer ${schedulerToken}`
Unauthorized(authHeader, token) ==
    token # "" /\ authHeader # <<"Bearer ", token>>

\* a regeneration that answers success without invalidating the cache
regenerated_mut(cache) == cache

\* execSync(generator) returned: clearCache(), then the success response
regenerated(cache) == clearCache

\* the cache cleared before the generator is run
regenerationFailed_mut(cache) == clearCache

\* execSync(generator) threw: the catch block is entered before clearCache()
\* is reached, and answers 500
regenerationFailed(cache) == cache

\* The handler is synchronous: execSync blocks the server until the generator
\* has exited.  A generator that fails exits before it writes the file, and
\* execSync throws.
POST_regenerate_data ==
    /\ Pending("regenerate-data")
    /\ IF Unauthorized(req.authorization, schedulerToken)
       THEN /\ resp' = [status |-> 401, body |-> [error |-> "Unauthorized"]]
            /\ UNCHANGED <<file, cachedEvents, lastRegen>>
       ELSE \/ \E log \in GeneratedLogs :
                 /\ file' = writeEvents(log)
                 /\ cachedEvents' = regenerated(cachedEvents)
                 /\ lastRegen' = [loads |-> 0, dropped |-> cachedEvents, hit |-> lastRegen.hit]
                 /\ resp' = [status |-> 200, body |-> [success |-> TRUE]]
            \/ /\ resp' = [status |-> 500, body |-> [success |-> FALSE]]
               /\ cachedEvents' = regenerationFailed(cachedEvents)
               /\ UNCHANGED <<file, lastRegen>>
    /\ UNCHANGED <<tz, schedulerToken, loaded, events, req, abTestPage>>

(***************************************************************************)
(* scripts/generateEvents.ts: the generation itself.  Ids are strings the  *)
(* script builds by interpolation, hence sequences of code units.          *)
(***************************************************************************)
\* String(n).padStart(width, '0') of an integer in 0..99
PadStart(n, width) == [i \in 1..(width - Len(NumToString(n))) |-> 48] \o NumToString(n)

\* the first entries of FALLBACK_EXPERIMENTS: 'exp_001', 'exp_002', 'exp_003'
FALLBACK_EXPERIMENTS ==
    <<[id |-> <<101, 120, 112, 95, 48, 48, 49>>, name |-> "Homepage Hero Text"],
      [id |-> <<101, 120, 112, 95, 48, 48, 50>>, name |-> "CTA Button Colour"],
      [id |-> <<101, 120, 112, 95, 48, 48, 51>>, name |-> "Checkout Flow"]>>

\* experiments of the experiment manager: the ids 'clx9aaaa1' and
\* 'clx9aaaa2', created one after the other, and 'qrs7bbbb1'
RemoteExperiments ==
    {[id |-> <<99, 108, 120, 57, 97, 97, 97, 97, 49>>, name |-> "Remote Pricing"],
     [id |-> <<99, 108, 120, 57, 97, 97, 97, 97, 50>>, name |-> "Remote Banner"],
     [id |-> <<113, 114, 115, 55, 98, 98, 98, 98, 49>>, name |-> "Remote Search"]}

\* s.substring(0, end)
substring0(s, end) == SubSeq(s, 1, IF end < Len(s) THEN end ELSE Len(s))

\* id: `exp_${remote.id.substring(0, 8)}`, name: remote.name
mapRemoteExperiment(remote) ==
    [id |-> <<101, 120, 112, 95>> \o substring0(remote.id, 8), name |-> remote.name]

\* what fetchLiveExperiments can return: the fallback list (no manager
\* configured, a failed fetch, no live experiment) or the live experiments
\* mapped
ExperimentLists ==
    {SubSeq(FALLBACK_EXPERIMENTS, 1, MaxExperiments)}
    \cup {[i \in 1..Len(l) |-> mapRemoteExperiment(l[i])] :
            l \in {r \in SeqsUpTo(RemoteExperiments, MaxExperiments) :
                      r # <<>> /\ \A i, j \in DOMAIN r : i # j => r[i] # r[j]}}

\* `user_${String(index).padStart(5, '0')}`
generateUserId(index) == <<117, 115, 101, 114, 95>> \o PadStart(index, 5)

\* `${experiment.id}_session_${String(sessionIndex).padStart(6, '0')}`
sessionIdOf(experiment, sessionIndex) ==
    experiment.id \o <<95, 115, 101, 115, 115, 105, 111, 110, 95>>
                  \o PadStart(sessionIndex, 6)

\* the random draws of one session: the user index, the variant, the device,
\* the channel, and how far down the funnel the session goes (1: page view
\* only, 4: up to a purchase)
SessionDraws ==
    {[user |-> d[1], variant |-> d[2], device |-> d[3], channel |-> d[4], depth |-> n] :
        d \in {<<0, "A", "mobile", "organic">>, <<1, "B", "desktop", "email">>,
               <<0, "B", "mobile", "email">>},
        n \in {1, 4}}

\* generateSessionEvents: the funnel events of one session, each later than
\* the one before (an hour later in the model), the purchase with a value
generateSessionEvents(sessionId, userId, draw, experiment, day) ==
    [k \in 1..draw.depth |->
        [Event(sessionId, FUNNEL_STEPS[k], draw.variant, draw.device, draw.channel,
               experiment.id, experiment.name, ISOTimestamp(day, 7 + k),
               IF k = 4 THEN <<2000>> ELSE <<>>)
         EXCEPT !.user_id = userId]]

RECURSIVE insertOldestFirst(_, _)
insertOldestFirst(s, e) ==
    IF s = <<>> THEN <<e>>
    ELSE IF StrLess(e.timestamp, Head(s).timestamp) THEN <<e>> \o s
    ELSE <<Head(s)>> \o insertOldestFirst(Tail(s), e)

\* allEvents.sort((a, b) => a.timestamp.localeCompare(b.timestamp)), stable
RECURSIVE sortOldestFirst(_)
sortOldestFirst(s) ==
    IF s = <<>> THEN <<>>
    ELSE insertOldestFirst(sortOldestFirst(SubSeq(s, 1, Len(s) - 1)), s[Len(s)])

\* the events of the sessions sessionIndex, sessionIndex + 1, ... of the
\* experiments e, e + 1, ...: the two nested loops of generateData
RECURSIVE generateFrom(_, _, _, _)
generateFrom(experiments, draws, e, sessionIndex) ==
    IF e > Len(experiments) THEN <<>>
    ELSE IF sessionIndex >= MaxSessions THEN generateFrom(experiments, draws, e + 1, 0)
    ELSE generateSessionEvents(sessionIdOf(experiments[e], sessionIndex),
                               generateUserId(draws[e][sessionIndex + 1].user),
                               draws[e][sessionIndex + 1],
                               experiments[e], 1 + sessionIndex)
         \o generateFrom(experiments, draws, e, sessionIndex + 1)

generateData(experiments, draws) == sortOldestFirst(generateFrom(experiments, draws, 1, 0))

\* one run of the script where no data file exists yet: main() writes
\* what generateData returns
RunGenerator ==
    /\ ~file.ok
    /\ \E experiments \in ExperimentLists :
          \E draws \in [1..Len(experiments) -> [1..MaxSessions -> SessionDraws]] :
              file' = writeEvents(generateData(experiments, draws))
    /\ UNCHANGED <<cachedEvents, tz, schedulerToken, loaded, events, req, resp,
                   abTestPage, lastRegen>>

(***************************************************************************)
(* The server: requests arrive one after the other.                        *)
(***************************************************************************)
ServerRequests ==
    {[endpoint |-> "funnel"], [endpoint |-> "ab-test"], [endpoint |-> "trends"],
     [endpoint |-> "overview",
      query |-> [startDate |-> <<>>, endDate |-> <<>>, device |-> "", channel |-> ""]],
     [endpoint |-> "overview",
      query |-> [startDate |-> ISODate(1), endDate |-> <<>>, device |-> "mobile",
                 channel |-> ""]],
     [endpoint |-> "events", query |-> [page |-> <<>>, limit |-> <<>>, session_id |-> ""]],
     [endpoint |-> "events",
      query |-> [page |-> <<50>>, limit |-> <<49>>, session_id |-> "s2"]]}
    \cup {[endpoint |-> "regenerate-data", authorization |-> h] :
            h \in {<<>>, <<"Bearer ", "secret">>, <<"Bearer ", "guess">>}}

\* the next request reaches the server once the previous one is answered
NewRequest ==
    /\ resp.status # 0
    /\ req' \in ServerRequests
    /\ resp' = [status |-> 0]
    /\ UNCHANGED <<file, cachedEvents, tz, schedulerToken, loaded, events, abTestPage,
                   lastRegen>>

(***************************************************************************)
(* Specifications.  Each draws the data file from a bounded set of event   *)
(* logs and the request from a bounded set; the server starts with an      *)
(* empty cache.                                                            *)
(***************************************************************************)
InitWith(Logs, Zones, Requests) ==
    /\ file \in {[ok |-> TRUE, events |-> l] : l \in Logs}
    /\ cachedEvents = Null
    /\ tz \in Zones
    /\ schedulerToken = ""
    /\ abTestPage = [experiments |-> <<>>, lifts |-> <<>>]
    /\ lastRegen = [loads |-> 2, dropped |-> Null, hit |-> FALSE]
    /\ loaded = <<>>
    /\ events = <<>>
    /\ req \in Requests
    /\ resp = [status |-> 0]

\* logs for the funnel: two sessions, the four steps and an unrecognized name
FunnelEvents ==
    {Event(sid, name, "A", "mobile", "organic", "exp_001", "Homepage Hero Text",
           ISOTimestamp(1, 2), <<>>) :
        sid \in {"s1", "s2"},
        name \in {"page_view", "add_to_cart", "begin_checkout", "purchase", "scroll"}}

InitFunnel ==
    InitWith(SeqsUpTo(FunnelEvents, MaxFunnelEvents), {0}, {[endpoint |-> "funnel"]})

NextFunnel == GET_funnel

SpecFunnel == InitFunnel /\ [][NextFunnel]_vars

\* logs for the A/B aggregator: two sessions, two experiments, the arms A and B
\* and an unrecognized arm, purchases with a value and page views with and
\* without one
ABEvents ==
    {Event(sid, kind[1], variant, "mobile", "organic", exp[1], exp[2],
           ISOTimestamp(1, 2), kind[2]) :
        sid \in {"s1", "s2"},
        variant \in {"A", "B", "C"},
        exp \in {<<"exp_001", "Homepage Hero Text">>, <<"exp_002", "CTA Button Colour">>},
        kind \in {<<"page_view", <<>>>>, <<"page_view", <<70>>>>, <<"purchase", <<50>>>>}}

InitAB == InitWith(SeqsUpTo(ABEvents, MaxABEvents), {0}, {[endpoint |-> "ab-test"]})

NextAB == GET_ab_test \/ ABTestPage_fetch

SpecAB == InitAB /\ [][NextAB]_vars

\* logs for the overview: two days, the hours 02 and 10 (UTC), a browsing
\* session on a phone and a buying session on a desktop
OverviewEvents ==
    {Event(prof[1], prof[4], "A", prof[2], prof[3], "exp_001", "Homepage Hero Text",
           ISOTimestamp(day, hour), prof[5]) :
        prof \in {<<"s1", "mobile", "organic", "page_view", <<>>>>,
                  <<"s2", "desktop", "email", "purchase", <<250>>>>},
        day \in {1, 2}, hour \in {2, 10}}

\* the server's zone: UTC and UTC-5
Zones == {0, -5}

InitOverview ==
    InitWith(SeqsUpTo(OverviewEvents, MaxOverviewEvents), Zones, OverviewRequests)

NextOverview == GET_overview

SpecOverview == InitOverview /\ [][NextOverview]_vars

\* logs for the listing: two sessions, three instants
ListEvents ==
    {Event(sid, "page_view", "A", "mobile", "organic", "exp_001", "Homepage Hero Text",
           ts, <<>>) :
        sid \in {"s1", "s2"},
        ts \in {ISOTimestamp(1, 2), ISOTimestamp(1, 10), ISOTimestamp(2, 2)}}

InitEvents == InitWith(SeqsUpTo(ListEvents, MaxListEvents), {0}, EventsRequests)

NextEvents == GET_events

SpecEvents == InitEvents /\ [][NextEvents]_vars

\* logs for the trends: two sessions, two days, page views with and without
\* a value, purchases with and without a value
TrendEvents ==
    {Event(sid, kind[1], "A", "mobile", "organic", "exp_001", "Homepage Hero Text",
           ISOTimestamp(day, 2), kind[2]) :
        sid \in {"s1", "s2"},
        kind \in {<<"page_view", <<>>>>, <<"page_view", <<70>>>>,
                  <<"purchase", <<>>>>, <<"purchase", <<250>>>>},
        day \in {1, 2}}

InitTrends == InitWith(SeqsUpTo(TrendEvents, MaxTrendEvents), {0}, {[endpoint |-> "trends"]})

NextTrends == GET_trends

SpecTrends == InitTrends /\ [][NextTrends]_vars

\* logs for all four aggregators together: a session in arm A and one in arm
\* B, page views and purchases, two days
AggregatorEvents ==
    {Event(prof[1], kind[1], prof[2], prof[3], prof[4], "exp_001", "Homepage Hero Text",
           ISOTimestamp(day, 2), kind[2]) :
        prof \in {<<"s1", "A", "mobile", "organic">>, <<"s2", "B", "desktop", "email">>},
        kind \in {<<"page_view", <<>>>>, <<"purchase", <<250>>>>},
        day \in {1, 2}}

AggregatorRequests ==
    {[endpoint |-> "funnel"], [endpoint |-> "ab-test"], [endpoint |-> "trends"]}
    \cup OverviewRequests

InitAggregators ==
    InitWith(SeqsUpTo(AggregatorEvents, MaxAggregatorEvents), {0}, AggregatorRequests)

NextAggregators == GET_funnel \/ GET_ab_test \/ GET_trends \/ GET_overview

SpecAggregators == InitAggregators /\ [][NextAggregators]_vars

\* the server: the data file holds a generated collection or cannot be read
Init ==
    /\ file \in {writeEvents(log) : log \in GeneratedLogs} \cup {[ok |-> FALSE, events |-> <<>>]}
    /\ cachedEvents = Null
    /\ tz = 0
    /\ schedulerToken \in {"", "secret"}
    /\ loaded = <<>>
    /\ events = <<>>
    /\ req \in ServerRequests
    /\ resp = [status |-> 0]
    /\ abTestPage = [experiments |-> <<>>, lifts |-> <<>>]
    /\ lastRegen = [loads |-> 2, dropped |-> Null, hit |-> FALSE]

Next ==
    \/ NewRequest
    \/ GET_events
    \/ GET_funnel
    \/ GET_ab_test
    \/ GET_trends
    \/ GET_overview
    \/ POST_regenerate_data
    \/ generateEvents_main

Spec == Init /\ [][Next]_vars

\* the script run once, and the trends asked of the server afterwards
InitGenerator ==
    /\ file = [ok |-> FALSE, events |-> <<>>]
    /\ cachedEvents = Null
    /\ tz = 0
    /\ schedulerToken = ""
    /\ loaded = <<>>
    /\ events = <<>>
    /\ req = [endpoint |-> "trends"]
    /\ resp = [status |-> 0]
    /\ abTestPage = [experiments |-> <<>>, lifts |-> <<>>]
    /\ lastRegen = [loads |-> 2, dropped |-> Null, hit |-> FALSE]

NextGenerator == RunGenerator \/ GET_trends

SpecGenerator == InitGenerator /\ [][NextGenerator]_vars

(***************************************************************************)
(* Claims about the funnel.                                                *)
(***************************************************************************)
IsFunnelResponse == req.endpoint = "funnel" /\ resp.status = 200

\* C1: for each funnel step after the first, pct_from_previous is
\* 100 * sessions[step] / sessions[step-1] when the previous step has a
\* session, and 0 when the previous step has none.
C1_PctFromPreviousZeroGuard ==
    IsFunnelResponse =>
        \A i \in 2..Len(FUNNEL_STEPS) :
            resp.body[i].pct_from_previous =
                IF resp.body[i - 1].sessions > 0
                THEN Rat(100 * resp.body[i].sessions, resp.body[i - 1].sessions)
                ELSE Num(0)

\* the sessions of the log evs having at least one event named step
SessionsWith(evs, step) ==
    {sid \in {evs[j].session_id : j \in DOMAIN evs} :
        \E j \in DOMAIN evs : evs[j].session_id = sid /\ evs[j].event_name = step}

\* C10: each funnel step's sessions is the number of distinct session ids
\* with at least one event of that name, and pct_from_start is
\* 100 * sessions[step] / sessions[page_view], or 0 when no session has a
\* page_view.
C10_FunnelSessionsAndPctFromStart ==
    IsFunnelResponse =>
        \A i \in 1..Len(FUNNEL_STEPS) :
            /\ resp.body[i].sessions =
                    Cardinality(SessionsWith(events, FUNNEL_STEPS[i]))
            /\ resp.body[i].pct_from_start =
                    IF Cardinality(SessionsWith(events, "page_view")) = 0
                    THEN Num(0)
                    ELSE Rat(100 * Cardinality(SessionsWith(events, FUNNEL_STEPS[i])),
                             Cardinality(SessionsWith(events, "page_view")))

\* a session with two page views counted once, beside an unrecognized event
C10_Witness ==
    /\ IsFunnelResponse
    /\ Len(events) = 3
    /\ events[1].event_name = "page_view" /\ events[1].session_id = "s1"
    /\ events[2].event_name = "scroll" /\ events[2].session_id = "s2"
    /\ events[3] = events[1]
    /\ resp.body[1].sessions = 1
    /\ resp.body[1].pct_from_start = Num(100)

\* C11: the first funnel step (page_view) has pct_from_previous exactly
\* 100, whether or not any session has a page_view.
C11_FirstStepPctFromPrevious ==
    IsFunnelResponse => resp.body[1].pct_from_previous = Num(100)

\* a log with events and no page view: the first step counts no session
C11_Witness ==
    /\ IsFunnelResponse
    /\ Len(events) = 2
    /\ events[1].event_name = "purchase"
    /\ events[2].event_name = "add_to_cart"
    /\ resp.body[1].sessions = 0
    /\ resp.body[2].sessions = 1
    /\ resp.body[1].pct_from_previous = Num(100)

\* s with every code unit pat replaced by rep
replaceAll(s, pat, rep) == [i \in DOMAIN s |-> IF s[i] = pat THEN rep ELSE s[i]]

\* C12: the funnel has exactly four steps, in the order page_view,
\* add_to_cart, begin_checkout, purchase, and each step_name is the event
\* name with every underscore replaced by a space, so that no step_name
\* contains an underscore.
C12_FourStepsHumanReadable ==
    IsFunnelResponse =>
        /\ Len(resp.body) = 4
        /\ FUNNEL_STEPS = <<"page_view", "add_to_cart", "begin_checkout", "purchase">>
        /\ \A i \in 1..4 :
               /\ resp.body[i].step_name = replaceAll(StepChars(FUNNEL_STEPS[i]), 95, 32)
               /\ \A j \in DOMAIN resp.body[i].step_name : resp.body[i].step_name[j] # 95

(***************************************************************************)
(* Claims about the A/B aggregator.                                        *)
(***************************************************************************)
IsABResponse == req.endpoint = "ab-test" /\ resp.status = 200

\* the positions in evs of the events of experiment id and arm v
ArmIndices(evs, id, v) ==
    {j \in DOMAIN evs : evs[j].experiment_id = id /\ evs[j].variant = v}

\* the sum of the values present on the events of evs at the positions J
RECURSIVE SumAt(_, _)
SumAt(evs, J) ==
    IF J = {} THEN 0
    ELSE LET j == CHOOSE x \in J : TRUE
         IN  (IF evs[j].value = <<>> THEN 0 ELSE evs[j].value[1]) + SumAt(evs, J \ {j})

\* C8: the A/B aggregator returns exactly one entry per distinct
\* experiment_id, each with exactly two results, arm A first and arm B
\* second, an arm without events having all its metrics 0.
C8_TwoArmsPerExperiment ==
    IsABResponse =>
        /\ {resp.body[k].experiment_id : k \in DOMAIN resp.body}
                = {events[j].experiment_id : j \in DOMAIN events}
        /\ \A k, m \in DOMAIN resp.body :
                resp.body[k].experiment_id = resp.body[m].experiment_id => k = m
        /\ \A k \in DOMAIN resp.body :
                LET r == resp.body[k].results
                IN  /\ Len(r) = 2
                    /\ r[1].variant = "A"
                    /\ r[2].variant = "B"
                    /\ \A a \in 1..2 :
                            ArmIndices(events, resp.body[k].experiment_id, r[a].variant) = {}
                            => /\ r[a].sessions = 0
                               /\ r[a].conversions = 0
                               /\ r[a].conversion_rate = Num(0)
                               /\ r[a].revenue = 0
                               /\ r[a].revenue_per_session = Num(0)

\* one experiment with events in arm B only, another with events in neither arm
C8_Witness ==
    /\ IsABResponse
    /\ Len(resp.body) = 2
    /\ ArmIndices(events, resp.body[1].experiment_id, "A") = {}
    /\ ArmIndices(events, resp.body[1].experiment_id, "B") # {}
    /\ ArmIndices(events, resp.body[2].experiment_id, "A") = {}
    /\ ArmIndices(events, resp.body[2].experiment_id, "B") = {}
    /\ resp.body[1].results[1].sessions = 0
    /\ resp.body[1].results[2].sessions = 1

\* C9: for every experiment and arm, sessions is the number of distinct
\* session ids, conversions the number of purchase events, conversion_rate
\* 100 * conversions / sessions (0 without sessions), revenue the sum of value
\* over purchase events only, revenue_per_session revenue / sessions (0
\* without sessions).
C9_ArmMetricsMatchReference ==
    IsABResponse =>
        \A k \in DOMAIN resp.body : \A a \in DOMAIN resp.body[k].results :
            LET r == resp.body[k].results[a]
                J == ArmIndices(events, resp.body[k].experiment_id, r.variant)
                P == {j \in J : events[j].event_name = "purchase"}
                nSessions == Cardinality({events[j].session_id : j \in J})
            IN  /\ r.sessions = nSessions
                /\ r.conversions = Cardinality(P)
                /\ r.conversion_rate =
                       IF nSessions = 0 THEN Num(0)
                       ELSE Rat(100 * Cardinality(P), nSessions)
                /\ r.revenue = SumAt(events, P)
                /\ r.revenue_per_session =
                       IF nSessions = 0 THEN Num(0)
                       ELSE Rat(SumAt(events, P), nSessions)

\* an arm with a purchase of 50 and a page view carrying a value of 70
C9_Witness ==
    /\ IsABResponse
    /\ Len(events) = 2
    /\ events[1].event_name = "purchase" /\ events[1].value = <<50>>
    /\ events[2].event_name = "page_view" /\ events[2].value = <<70>>
    /\ events[1].variant = "B" /\ events[2].variant = "B"
    /\ events[1].session_id # events[2].session_id
    /\ Len(resp.body) = 1
    /\ resp.body[1].results[2].revenue = 50
    /\ resp.body[1].results[2].revenue_per_session = Num(25)
    /\ resp.body[1].results[2].conversion_rate = Num(50)

\* C6: calculateLift returns 100 * (rateB - rateA) / rateA when variant A's
\* conversion_rate is positive and 0, never NaN or an infinity, when it is 0.
C6_LiftZeroWhenBaselineZero ==
    \A k \in DOMAIN abTestPage.lifts :
        LET a == abTestPage.experiments[k].results[1].conversion_rate
            b == abTestPage.experiments[k].results[2].conversion_rate
        IN  abTestPage.lifts[k] =
                IF a.n > 0 THEN Rat(100 * (b.n * a.d - a.n * b.d), b.d * a.n)
                ELSE Num(0)

(***************************************************************************)
(* Claims about the overview.                                              *)
(***************************************************************************)
\* the YYYY-MM-DD prefix of an ISO timestamp
DateOf(ts) == SubSeq(ts, 1, 10)

IsOverviewResponse == req.endpoint = "overview" /\ resp.status = 200

\* C2: a date filter given as a calendar date D is inclusive at day
\* granularity on both bounds: endDate = D keeps every event of day D,
\* startDate = D keeps every event of day D, and startDate = endDate = D
\* keeps exactly the events of day D.
C2_DateBoundsInclusive ==
    (IsOverviewResponse /\ req.query.device = "" /\ req.query.channel = "") =>
        LET q == req.query
            kept == {events[i] : i \in DOMAIN events}
            OnDay(D) == {loaded[i] : i \in {j \in DOMAIN loaded :
                                              DatePrefix(loaded[j].timestamp) = D}}
        IN  /\ (q.endDate # <<>> /\ q.startDate = <<>>) => OnDay(q.endDate) \subseteq kept
            /\ (q.startDate # <<>> /\ q.endDate = <<>>) => OnDay(q.startDate) \subseteq kept
            /\ (q.startDate # <<>> /\ q.startDate = q.endDate) => kept = OnDay(q.startDate)

\* C3: in multi-day mode hourly_metrics is ordered by day and then by the
\* hour of the day as a number.
C3_MultiDayOrderedByDayThenHour ==
    (IsOverviewResponse /\ ~resp.body.is_single_day) =>
        LET h == resp.body.hourly_metrics
        IN  \A k \in 1..(Len(h) - 1) :
                \/ StrLess(h[k].day, h[k + 1].day)
                \/ h[k].day = h[k + 1].day /\ h[k].hour_24 < h[k + 1].hour_24

\* C17: the filtered set is exactly the events that satisfy every supplied
\* filter (date bounds inclusive on the date prefix, device, channel), an
\* absent filter imposes no constraint, and a device or channel outside the
\* known values gives an empty set, sessions 0, purchases 0 and a null date
\* range, in a normal response.
C17_FiltersComposeAsAnd ==
    IsOverviewResponse =>
        LET q == req.query
            Satisfies(e) ==
                /\ q.startDate = <<>> \/ StrLeq(q.startDate, DateOf(e.timestamp))
                /\ q.endDate = <<>> \/ StrLeq(DateOf(e.timestamp), q.endDate)
                /\ q.device = "" \/ e.device = q.device
                /\ q.channel = "" \/ e.channel = q.channel
        IN  /\ events = SelectSeq(loaded, Satisfies)
            /\ ((q.device # "" /\ q.device \notin KnownDevices)
                    \/ (q.channel # "" /\ q.channel \notin KnownChannels)) =>
                   /\ events = <<>>
                   /\ resp.body.sessions = 0
                   /\ resp.body.purchases = 0
                   /\ resp.body.date_range = [start |-> Null, end |-> Null]

\* C18: over the filtered set, sessions is the number of distinct session
\* ids, purchases the number of purchase events, conversion_rate is
\* 100 * purchases / sessions (0 without sessions), revenue the sum of the
\* purchase values in cents, aov is revenue / purchases (0 without
\* purchases), and date_range holds the least and the greatest date prefix
\* (both null when the set is empty).
C18_TopLineMetrics ==
    IsOverviewResponse =>
        LET bought == {j \in DOMAIN events : events[j].event_name = "purchase"}
            sessions == Cardinality({events[j].session_id : j \in DOMAIN events})
            dates == {DateOf(events[j].timestamp) : j \in DOMAIN events}
            b == resp.body
        IN  /\ b.sessions = sessions
            /\ b.purchases = Cardinality(bought)
            /\ b.conversion_rate =
                   (IF sessions = 0 THEN Num(0) ELSE Rat(100 * Cardinality(bought), sessions))
            /\ b.revenue = SumAt(events, bought)
            /\ b.aov = (IF bought = {} THEN Num(0)
                        ELSE Rat(SumAt(events, bought), Cardinality(bought)))
            /\ events = <<>> => b.date_range = [start |-> Null, end |-> Null]
            /\ events # <<>> =>
                   /\ b.date_range.start \in dates /\ b.date_range.end \in dates
                   /\ \A d \in dates : StrLeq(b.date_range.start, d) /\ StrLeq(d, b.date_range.end)

\* one session buying twice on the later day before another browses on the
\* earlier day
C18_Witness ==
    /\ IsOverviewResponse
    /\ Len(events) = 3
    /\ DateOf(events[1].timestamp) = ISODate(2)
    /\ DateOf(events[3].timestamp) = ISODate(1)
    /\ resp.body.sessions = 2
    /\ resp.body.purchases = 2
    /\ resp.body.conversion_rate = Num(100)
    /\ resp.body.revenue = 500
    /\ resp.body.aov = Num(250)
    /\ resp.body.date_range = [start |-> ISODate(1), end |-> ISODate(2)]

\* the hour of the day of an ISO timestamp in the server's zone
LocalHour(ts) == ((ts[12] - 48) * 10 + (ts[13] - 48) + tz + 24) % 24

\* C19: when the date range has start equal to end, both null included,
\* is_single_day is true and hourly_metrics has exactly 24 entries, with
\* hour_24 = 0, 1, ..., 23 in that order and labels '00:00' .. '23:00'; an
\* hour without events has sessions 0, conversions 0, revenue 0 and an
\* empty channel histogram.
C19_SingleDayHas24Hours ==
    (IsOverviewResponse /\ resp.body.date_range.start = resp.body.date_range.end) =>
        LET h == resp.body.hourly_metrics
        IN  /\ resp.body.is_single_day
            /\ Len(h) = 24
            /\ \A k \in 1..24 :
                   /\ h[k].hour_24 = k - 1
                   /\ h[k].hour = <<48 + ((k - 1) \div 10), 48 + ((k - 1) % 10), 58, 48, 48>>
                   /\ (\A j \in DOMAIN events : LocalHour(events[j].timestamp) # k - 1) =>
                          /\ h[k].sessions = 0
                          /\ h[k].conversions = 0
                          /\ h[k].revenue = Num(0)
                          /\ DOMAIN h[k].channels = {}

\* a day with events in two hours only: the other 22 entries are empty
C19_Witness ==
    /\ IsOverviewResponse
    /\ resp.body.is_single_day
    /\ Len(events) = 2
    /\ LocalHour(events[1].timestamp) # LocalHour(events[2].timestamp)
    /\ Len(resp.body.hourly_metrics) = 24
    /\ Cardinality({k \in 1..24 : resp.body.hourly_metrics[k].sessions = 0}) = 22
    /\ resp.body.hourly_metrics[1].sessions = 0
    /\ DOMAIN resp.body.hourly_metrics[1].channels = {}

(***************************************************************************)
(* Claims about the event listing.                                         *)
(***************************************************************************)
IsEventsResponse == req.endpoint = "events" /\ resp.status = 200

\* the number a query value stands for, or the default when it is absent
\* or not numeric
NumericOr(raw, default) ==
    IF raw = <<>> \/ parseInt(raw).t = "nan" THEN default ELSE parseInt(raw).n

\* C4: malformed page and limit values are clamped, not propagated: a page
\* below 1 or not numeric is page 1, a limit above 200 is 200, a limit not
\* numeric is 50; the page reported is a number >= 1 and the limit reported
\* a number in 1..200.
C4_PageAndLimitClamped ==
    IsEventsResponse =>
        LET p == resp.body.pagination
            rawPage == NumericOr(req.query.page, 1)
            rawLimit == NumericOr(req.query.limit, 50)
        IN  /\ p.page.t = "num" /\ p.page.d = 1 /\ p.page.n >= 1
            /\ p.limit.t = "num" /\ p.limit.d = 1 /\ p.limit.n \in 1..200
            /\ p.page.n = (IF rawPage < 1 THEN 1 ELSE rawPage)
            /\ rawLimit > 200 => p.limit.n = 200
            /\ parseInt(req.query.limit).t = "nan" => p.limit.n = 50

\* the number of events of evs for which timestamp > ts
NewerThan(evs, ts) == Cardinality({j \in DOMAIN evs : StrLess(ts, evs[j].timestamp)})

\* the number of events of evs for which timestamp >= ts
NotOlderThan(evs, ts) == Cardinality({j \in DOMAIN evs : StrLeq(ts, evs[j].timestamp)})

\* C13: data is exactly the slice [(page-1)*limit, (page-1)*limit + limit)
\* of the session-filtered events in descending timestamp order: it has one
\* event per index of that range that exists, the event at index i carries
\* the timestamp of rank i, consecutive timestamps do not increase, and an
\* offset at or beyond the filtered count gives an empty list.
C13_PageIsSliceOfNewestFirst ==
    (IsEventsResponse /\ resp.body.pagination.page.t = "num"
                      /\ resp.body.pagination.limit.t = "num") =>
        LET data == resp.body.data
            start == (resp.body.pagination.page.n - 1) * resp.body.pagination.limit.n
            end == start + resp.body.pagination.limit.n
            Idx == {i \in 0..(Len(events) - 1) : start <= i /\ i < end}
            first == IF start < 0 THEN 0 ELSE start
        IN  /\ Len(data) = Cardinality(Idx)
            /\ \A k \in DOMAIN data :
                   /\ \E j \in DOMAIN events : events[j] = data[k]
                   /\ NewerThan(events, data[k].timestamp) <= first + k - 1
                   /\ first + k - 1 < NotOlderThan(events, data[k].timestamp)
            /\ \A k \in 1..(Len(data) - 1) :
                   StrLeq(data[k + 1].timestamp, data[k].timestamp)
            /\ start >= Len(events) => data = <<>>

\* C14: total is the number of events left by the session_id filter,
\* totalPages is ceil(total / limit) for the limit reported, in JavaScript
\* arithmetic (0/0 is NaN, x/0 is infinite), and an empty collection with
\* page 1 and limit 50 gives data = [], total = 0, totalPages = 0.
C14_TotalAndTotalPages ==
    IsEventsResponse =>
        LET p == resp.body.pagination
            InSession(e) == req.query.session_id = "" \/ e.session_id = req.query.session_id
            total == Cardinality({j \in DOMAIN loaded : InSession(loaded[j])})
        IN  /\ p.total = total
            /\ p.limit.t = "nan" => p.totalPages = NaN
            /\ (p.limit.t = "num" /\ p.limit.n = 0) =>
                   p.totalPages = (IF total = 0 THEN NaN ELSE Inf(1))
            /\ (p.limit.t = "num" /\ p.limit.n > 0) =>
                   /\ p.totalPages.t = "num" /\ p.totalPages.d = 1
                   /\ p.totalPages.n * p.limit.n >= total
                   /\ (p.totalPages.n - 1) * p.limit.n < total
            /\ (p.limit.t = "num" /\ p.limit.n < 0) =>
                   /\ p.totalPages.t = "num" /\ p.totalPages.d = 1
                   /\ p.totalPages.n * p.limit.n <= total
                   /\ (p.totalPages.n - 1) * p.limit.n > total
            /\ (loaded = <<>> /\ p.page = Num(1) /\ p.limit = Num(50)) =>
                   /\ resp.body.data = <<>>
                   /\ p.total = 0
                   /\ p.totalPages = Num(0)

\* the filter leaves one event of three, and a limit of 2 makes one page
C14_Witness ==
    /\ IsEventsResponse
    /\ Len(loaded) = 3
    /\ req.query.session_id = "s1"
    /\ resp.body.pagination.total = 1
    /\ resp.body.pagination.limit = Num(2)
    /\ resp.body.pagination.totalPages = Num(1)

(***************************************************************************)
(* Claims about the trends.                                                *)
(***************************************************************************)
IsTrendsResponse == req.endpoint = "trends" /\ resp.status = 200

\* the positions in evs of the events of the date
OnDate(evs, date) == {j \in DOMAIN evs : DateOf(evs[j].timestamp) = date}

\* C15: the trend series has exactly one point per distinct date prefix of
\* the log, and its dates are strictly ascending, whatever the order of the
\* events.
C15_OnePointPerDateAscending ==
    IsTrendsResponse =>
        /\ {resp.body[k].date : k \in DOMAIN resp.body} =
               {DateOf(loaded[j].timestamp) : j \in DOMAIN loaded}
        /\ Len(resp.body) = Cardinality({DateOf(loaded[j].timestamp) : j \in DOMAIN loaded})
        /\ \A k \in 1..(Len(resp.body) - 1) :
               StrLess(resp.body[k].date, resp.body[k + 1].date)

\* a log that starts on the later day and comes back to it after the earlier
C15_Witness ==
    /\ IsTrendsResponse
    /\ Len(loaded) = 3
    /\ DateOf(loaded[1].timestamp) = ISODate(2)
    /\ DateOf(loaded[2].timestamp) = ISODate(1)
    /\ DateOf(loaded[3].timestamp) = ISODate(2)
    /\ Len(resp.body) = 2
    /\ resp.body[1].date = ISODate(1)
    /\ resp.body[2].date = ISODate(2)

\* C16: for every date of the series, sessions is the number of distinct
\* session ids with an event on that date, conversions the number of
\* purchase events on it, revenue the sum of the values of its purchase
\* events only, and conversion_rate is 100 * conversions / sessions.
C16_TrendPointMetrics ==
    IsTrendsResponse =>
        \A k \in DOMAIN resp.body :
            LET day == OnDate(loaded, resp.body[k].date)
                bought == {j \in day : loaded[j].event_name = "purchase"}
                sessions == Cardinality({loaded[j].session_id : j \in day})
            IN  /\ sessions > 0
                /\ resp.body[k].sessions = sessions
                /\ resp.body[k].conversions = Cardinality(bought)
                /\ resp.body[k].revenue = SumAt(loaded, bought)
                /\ resp.body[k].conversion_rate = Rat(100 * Cardinality(bought), sessions)

\* a day on which one session views a page that carries a value and buys
\* twice, once without a value
C16_Witness ==
    /\ IsTrendsResponse
    /\ Len(loaded) = 3
    /\ \E j \in 1..3 : loaded[j].event_name = "page_view" /\ loaded[j].value = <<70>>
    /\ \E j \in 1..3 : loaded[j].event_name = "purchase" /\ loaded[j].value = <<250>>
    /\ \E j \in 1..3 : loaded[j].event_name = "purchase" /\ loaded[j].value = <<>>
    /\ Len(resp.body) = 1
    /\ resp.body[1].sessions = 1
    /\ resp.body[1].conversions = 2
    /\ resp.body[1].revenue = 250
    /\ resp.body[1].conversion_rate = Num(200)

(***************************************************************************)
(* Claims about all aggregators.                                           *)
(***************************************************************************)
\* C5: no rate or ratio an aggregator returns is NaN or infinite: funnel
\* pct_from_previous and pct_from_start, A/B conversion_rate and
\* revenue_per_session, trend conversion_rate, overview conversion_rate
\* and aov.
C5_RatesFinite ==
    /\ IsFunnelResponse =>
           \A i \in DOMAIN resp.body :
               IsFinite(resp.body[i].pct_from_previous) /\ IsFinite(resp.body[i].pct_from_start)
    /\ IsABResponse =>
           \A k \in DOMAIN resp.body : \A a \in DOMAIN resp.body[k].results :
               /\ IsFinite(resp.body[k].results[a].conversion_rate)
               /\ IsFinite(resp.body[k].results[a].revenue_per_session)
    /\ (req.endpoint = "trends" /\ resp.status = 200) =>
           \A k \in DOMAIN resp.body : IsFinite(resp.body[k].conversion_rate)
    /\ IsOverviewResponse =>
           IsFinite(resp.body.conversion_rate) /\ IsFinite(resp.body.aov)

\* an overview whose filters leave no event of a non-empty log: no session
\* and no purchase to divide by
C5_Witness ==
    /\ IsOverviewResponse
    /\ loaded # <<>>
    /\ events = <<>>
    /\ resp.body.sessions = 0
    /\ resp.body.purchases = 0
    /\ resp.body.conversion_rate = Num(0)
    /\ resp.body.aov = Num(0)

(***************************************************************************)
(* Claims about the event store and the regeneration.                      *)
(***************************************************************************)
IsGET == req.endpoint \in {"events", "funnel", "ab-test", "trends", "overview"}

\* a step in which a handler calls loadEvents()
LoadStep == IsGET /\ resp.status = 0 /\ resp'.status # 0

\* C7: the first loadEvents call after a successful regeneration re-reads
\* the data file and returns the collection it holds; a loadEvents call made
\* while the cache is set returns the cached snapshot.
C7_ReloadAfterRegeneration ==
    [][LoadStep =>
          /\ lastRegen.loads = 0 => (file.ok /\ loaded' = file.events)
          /\ cachedEvents # Null => loaded' = cachedEvents[1]]_vars

\* a request answered from the regenerated file, which differs from the
\* snapshot the regeneration invalidated
C7_Witness ==
    /\ IsGET /\ resp.status = 200
    /\ lastRegen.loads = 1
    /\ lastRegen.dropped # Null
    /\ loaded = file.events
    /\ loaded # lastRegen.dropped[1]

\* C20: once loadEvents has cached a snapshot, every later loadEvents call
\* returns that snapshot and leaves it cached, whatever the data file holds
\* by then, and the cache changes only by the invalidation of a successful
\* regeneration.
C20_CachedSnapshotIsReused ==
    [][/\ (LoadStep /\ cachedEvents # Null) =>
              (loaded' = cachedEvents[1] /\ cachedEvents' = cachedEvents)
       /\ (LoadStep /\ cachedEvents = Null /\ file.ok) =>
              (loaded' = file.events /\ cachedEvents' = Some(file.events))
       /\ (cachedEvents # Null /\ cachedEvents' # cachedEvents) =>
              (req.endpoint = "regenerate-data" /\ resp'.status = 200
               /\ cachedEvents' = Null)]_vars

\* a request answered from the cache after the file was rewritten with
\* another collection
C20_Witness ==
    /\ IsGET /\ resp.status = 200
    /\ lastRegen.hit
    /\ cachedEvents = Some(loaded)
    /\ file.ok
    /\ file.events # loaded

\* the response an endpoint gives for an empty collection
IsEmptyInputResponse(r) ==
    /\ r.status = 200
    /\ req.endpoint = "events" =>
           r.body.data = <<>> /\ r.body.pagination.total = 0
    /\ req.endpoint = "funnel" =>
           Len(r.body) = 4 /\ \A i \in 1..4 : r.body[i].sessions = 0
    /\ req.endpoint = "ab-test" => r.body = <<>>
    /\ req.endpoint = "trends" => r.body = <<>>
    /\ req.endpoint = "overview" =>
           /\ r.body.sessions = 0 /\ r.body.purchases = 0 /\ r.body.revenue = 0
           /\ r.body.date_range = [start |-> Null, end |-> Null]

\* C21: when the data file cannot be read or parsed, loadEvents returns an
\* empty collection and leaves the cache unset, the endpoint answers 200
\* with its empty-input result, and a loadEvents call made with the cache
\* unset and the file readable returns the file's events.
C21_LoadFailureGivesEmpty ==
    [][/\ (LoadStep /\ cachedEvents = Null /\ ~file.ok) =>
              /\ loaded' = <<>>
              /\ cachedEvents' = Null
              /\ IsEmptyInputResponse(resp')
       /\ (LoadStep /\ cachedEvents = Null /\ file.ok) => loaded' = file.events]_vars

\* a request answered while the file is unreadable
C21_Witness ==
    /\ IsGET /\ resp.status = 200
    /\ ~file.ok
    /\ cachedEvents = Null
    /\ loaded = <<>>
    /\ IsEmptyInputResponse(resp)

C23_ConversionRateMayExceed100 ==
    IsABResponse =>
        \A k \in DOMAIN resp.body : \A a \in DOMAIN resp.body[k].results :
            LET r == resp.body[k].results[a]
                J == ArmIndices(events, resp.body[k].experiment_id, r.variant)
                P == {j \in J : events[j].event_name = "purchase"}
                nSessions == Cardinality({events[j].session_id : j \in J})
            IN  Cardinality(P) > nSessions =>
                    /\ r.conversion_rate.t = "num"
                    /\ r.conversion_rate.n > 100 * r.conversion_rate.d

\* one session of arm B that buys twice: a conversion rate of 200
C23_Witness ==
    /\ IsABResponse
    /\ Len(events) = 2
    /\ events[1].session_id = events[2].session_id
    /\ events[1].variant = "B" /\ events[2].variant = "B"
    /\ events[1].event_name = "purchase" /\ events[2].event_name = "purchase"
    /\ Len(resp.body) = 1
    /\ resp.body[1].results[2].sessions = 1
    /\ resp.body[1].results[2].conversions = 2
    /\ resp.body[1].results[2].conversion_rate = Num(200)

(***************************************************************************)
(* Claims about requests interleaved with regenerations.                   *)
(***************************************************************************)
\* the response r to the request at the server reports the collection evs:
\* its counts are those of evs and of no other collection
ComputedFrom(r, evs) ==
    /\ r.status = 200
    /\ req.endpoint = "events" =>
           LET InSession(e) == req.query.session_id = "" \/ e.session_id = req.query.session_id
           IN  /\ r.body.pagination.total = Cardinality({j \in DOMAIN evs : InSession(evs[j])})
               /\ \A k \in DOMAIN r.body.data : \E j \in DOMAIN evs : evs[j] = r.body.data[k]
    /\ req.endpoint = "funnel" =>
           \A i \in 1..Len(FUNNEL_STEPS) :
               r.body[i].sessions = Cardinality(SessionsWith(evs, FUNNEL_STEPS[i]))
    /\ req.endpoint = "ab-test" =>
           /\ {r.body[k].experiment_id : k \in DOMAIN r.body} =
                  {evs[j].experiment_id : j \in DOMAIN evs}
           /\ \A k \in DOMAIN r.body : \A a \in DOMAIN r.body[k].results :
                  r.body[k].results[a].sessions =
                      Cardinality({evs[j].session_id :
                          j \in ArmIndices(evs, r.body[k].experiment_id,
                                           r.body[k].results[a].variant)})
    /\ req.endpoint = "trends" =>
           /\ {r.body[k].date : k \in DOMAIN r.body} =
                  {DateOf(evs[j].timestamp) : j \in DOMAIN evs}
           /\ \A k \in DOMAIN r.body :
                  LET day == OnDate(evs, r.body[k].date)
                      bought == {j \in day : evs[j].event_name = "purchase"}
                  IN  /\ r.body[k].sessions = Cardinality({evs[j].session_id : j \in day})
                      /\ r.body[k].conversions = Cardinality(bought)
                      /\ r.body[k].revenue = SumAt(evs, bought)
    /\ req.endpoint = "overview" =>
           LET q == req.query
               Kept(e) == /\ q.startDate = <<>> \/ StrLeq(q.startDate, DateOf(e.timestamp))
                          /\ q.device = "" \/ e.device = q.device
               J == {j \in DOMAIN evs : Kept(evs[j])}
               bought == {j \in J : evs[j].event_name = "purchase"}
           IN  /\ r.body.sessions = Cardinality({evs[j].session_id : j \in J})
               /\ r.body.purchases = Cardinality(bought)
               /\ r.body.revenue = SumAt(evs, bought)

\* C24: each aggregation request computes its whole response from the one
\* snapshot loadEvents gave it at its start, the cached collection or else
\* the file's: in every interleaving of requests with regenerations, no
\* response reports anything of another collection.
C24_ResponseFromOneSnapshot ==
    [][LoadStep =>
          /\ loaded' = (IF cachedEvents # Null THEN cachedEvents[1]
                        ELSE IF file.ok THEN file.events ELSE <<>>)
          /\ ComputedFrom(resp', loaded')]_vars

\* the trends of the regenerated collection, which differs from the
\* collection the regeneration replaced in the cache
C24_Witness ==
    /\ req.endpoint = "trends" /\ resp.status = 200
    /\ lastRegen.loads = 1
    /\ lastRegen.dropped # Null
    /\ Len(lastRegen.dropped[1]) = 1
    /\ Len(loaded) = 2
    /\ ComputedFrom(resp, loaded)
    /\ ~ComputedFrom(resp, lastRegen.dropped[1])

(***************************************************************************)
(* Further claims about the overview.                                      *)
(***************************************************************************)
\* the hour component of an ISO timestamp string
StringHour(ts) == (ts[12] - 48) * 10 + (ts[13] - 48)

\* C25: the hour of the day of a bucket is taken as the date prefix is, from
\* the timestamp string: whatever the zone of the process, the buckets that
\* hold events are those of the hour components (single day), or of the
\* pairs of date prefix and hour component (several days), of the filtered
\* events.
C25_HourInZoneOfDate ==
    IsOverviewResponse =>
        LET h == resp.body.hourly_metrics
        IN  IF resp.body.is_single_day
            THEN {h[k].hour_24 : k \in {i \in DOMAIN h : h[i].sessions > 0}} =
                     {StringHour(events[j].timestamp) : j \in DOMAIN events}
            ELSE {<<h[k].day, h[k].hour_24>> : k \in DOMAIN h} =
                     {<<DateOf(events[j].timestamp), StringHour(events[j].timestamp)>> :
                         j \in DOMAIN events}

(***************************************************************************)
(* Claims about the generator.                                             *)
(***************************************************************************)
\* C26: in every generated collection, events sharing a session_id share
\* user_id, variant, device, channel, experiment_id and experiment_name, and
\* events sharing an experiment_id share one experiment_name.
C26_SessionAttributesFixed ==
    file.ok =>
        \A i, j \in DOMAIN file.events :
            LET a == file.events[i]
                b == file.events[j]
            IN  /\ a.session_id = b.session_id =>
                       /\ a.user_id = b.user_id
                       /\ a.variant = b.variant
                       /\ a.device = b.device
                       /\ a.channel = b.channel
                       /\ a.experiment_id = b.experiment_id
                       /\ a.experiment_name = b.experiment_name
                /\ a.experiment_id = b.experiment_id =>
                       a.experiment_name = b.experiment_name

(***************************************************************************)
(* Further claims about the event listing.                                 *)
(***************************************************************************)
\* the data of page p of the listing of the loaded collection, with the
\* limit and the session filter of the request at the server
PageData(p) ==
    listEvents(loaded, [req.query EXCEPT !.page = NumToString(p)]).data

\* the pages 1..n one after the other
RECURSIVE PagesUpTo(_)
PagesUpTo(n) == IF n = 0 THEN <<>> ELSE PagesUpTo(n - 1) \o PageData(n)

\* C27: for a limit in 1..200 and a session filter, the data of the pages
\* 1..totalPages, one after the other, hold every filtered event exactly
\* once, in descending timestamp order; every page before the last holds
\* exactly limit events and the last page is not empty.
C27_PagesPartitionTheListing ==
    (IsEventsResponse /\ resp.body.pagination.limit.t = "num"
                      /\ resp.body.pagination.limit.n \in 1..200) =>
        LET limit == resp.body.pagination.limit.n
            n == resp.body.pagination.totalPages.n
            all == PagesUpTo(n)
        IN  /\ \A e \in {events[j] : j \in DOMAIN events} \cup {all[k] : k \in DOMAIN all} :
                   Cardinality({k \in DOMAIN all : all[k] = e}) =
                       Cardinality({j \in DOMAIN events : events[j] = e})
            /\ \A k \in 1..(Len(all) - 1) : StrLeq(all[k + 1].timestamp, all[k].timestamp)
            /\ \A q \in 1..(n - 1) : Len(PageData(q)) = limit
            /\ n >= 1 => PageData(n) # <<>>
            /\ (resp.body.pagination.page.t = "num" /\ resp.body.pagination.page.n \in 1..n) =>
                   resp.body.data = PageData(resp.body.pagination.page.n)

\* the second and last page of three events listed two by two
C27_Witness ==
    /\ IsEventsResponse
    /\ Len(events) = 3
    /\ resp.body.pagination.limit = Num(2)
    /\ resp.body.pagination.page = Num(2)
    /\ resp.body.pagination.totalPages = Num(2)
    /\ Len(resp.body.data) = 1
    /\ Len(PageData(1)) = 2
    /\ PageData(2) = resp.body.data

\* the sum of the counts of a channel histogram
RECURSIVE SumCounts(_)
SumCounts(hist) ==
    IF DOMAIN hist = {} THEN 0
    ELSE LET c == CHOOSE x \in DOMAIN hist : TRUE
         IN  hist[c] + SumCounts([x \in DOMAIN hist \ {c} |-> hist[x]])

\* over the buckets h: the conversions, the revenue in cents, the channel
\* counts, each summed
RECURSIVE BucketTotals(_)
BucketTotals(h) ==
    IF h = <<>> THEN [conversions |-> 0, cents |-> Num(0), counted |-> 0]
    ELSE LET rest == BucketTotals(Tail(h))
             b == Head(h)
         IN  [conversions |-> b.conversions + rest.conversions,
              cents |-> Rat(b.revenue.n * 100 * rest.cents.d + rest.cents.n * b.revenue.d,
                            b.revenue.d * rest.cents.d),
              counted |-> SumCounts(b.channels) + rest.counted]

\* C28: in both modes the hourly buckets account for the whole filtered
\* set: their conversions sum to the top-line purchases, 100 times their
\* revenue sums to the top-line revenue in cents, their channel counts sum
\* to the number of filtered events, and in multi-day mode every bucket has
\* at least one session.
C28_BucketsAccountForFilteredSet ==
    IsOverviewResponse =>
        LET h == resp.body.hourly_metrics
            t == BucketTotals(h)
        IN  /\ t.conversions = resp.body.purchases
            /\ t.cents = Num(resp.body.revenue)
            /\ t.counted = Len(events)
            /\ ~resp.body.is_single_day => \A k \in DOMAIN h : h[k].sessions >= 1

\* two days, three events in three buckets, two of them purchases
C28_Witness ==
    /\ IsOverviewResponse
    /\ ~resp.body.is_single_day
    /\ Len(events) = 3
    /\ Len(resp.body.hourly_metrics) = 3
    /\ resp.body.purchases = 2
    /\ resp.body.revenue = 500
    /\ BucketTotals(resp.body.hourly_metrics) =
           [conversions |-> 2, cents |-> Num(500), counted |-> 3]

(***************************************************************************)
(* Claims about POST /api/admin/regenerate-data.                           *)
(***************************************************************************)
\* a step in which the regeneration handler answers
RegenerateStep == req.endpoint = "regenerate-data" /\ resp.status = 0 /\ resp'.status # 0

\* C29: when SCHEDULER_TOKEN is configured and the Authorization header is
\* not exactly 'Bearer <SCHEDULER_TOKEN>', the regeneration answers 401 and
\* has no effect: the data file is unchanged (the generator did not run) and
\* the cache is not cleared.
C29_UnauthorizedHasNoEffect ==
    [][(RegenerateStep /\ schedulerToken # ""
           /\ req.authorization # <<"Bearer ", schedulerToken>>) =>
          /\ resp'.status = 401
          /\ file' = file
          /\ cachedEvents' = cachedEvents]_vars

\* a request without a header refused while a snapshot is cached
C29_Witness ==
    /\ req.endpoint = "regenerate-data"
    /\ req.authorization = <<>>
    /\ schedulerToken = "secret"
    /\ resp.status = 401
    /\ cachedEvents # Null
    /\ file.ok

\* C30: when the generation fails the regeneration answers 500 with
\* success = false and leaves the cache as it is, so that later requests are
\* answered from the snapshot cached before; and success = true is answered
\* only with the cache cleared.
C30_FailureKeepsCache ==
    [][/\ (RegenerateStep /\ resp'.status = 500) =>
              /\ resp'.body.success = FALSE
              /\ cachedEvents' = cachedEvents
       /\ (RegenerateStep /\ resp'.status = 200) =>
              /\ resp'.body.success = TRUE
              /\ cachedEvents' = Null
       /\ (LoadStep /\ cachedEvents # Null /\ lastRegen.loads # 0) =>
              loaded' = cachedEvents[1]]_vars

\* a failed regeneration with a snapshot in the cache
C30_Witness ==
    /\ req.endpoint = "regenerate-data"
    /\ resp.status = 500
    /\ resp.body.success = FALSE
    /\ cachedEvents # Null
    /\ cachedEvents[1] # <<>>

====
